---- MODULE Spec2Model ----
(***************************************************************************)
(* Model of App.tsx (gps-crono): the React component that arms a session,  *)
(* subscribes to location fixes and derives smoothed speed, maximum,       *)
(* distance, time origin, elapsed time, average speed and 0->X splits.     *)
(*                                                                         *)
(* Numbers.  JavaScript numbers are modelled as exact fixed-point          *)
(* integers:                                                               *)
(*   - a speed in km/h is an integer count of 1/KmhUnit km/h,              *)
(*   - coords.speed (m/s) is an integer count of 1/MpsUnit m/s,            *)
(*   - timestamps and elapsed times are integer milliseconds,              *)
(*   - distances are integer metres, latitudes integer multiples of the    *)
(*     arc that is MetersPerLatUnit metres long.                           *)
(* KmhUnit is chosen so that every EMA step on the inputs used is exact.   *)
(*                                                                         *)
(* Optional values (T | null) are sequences: <<>> is null, <<v>> is v.     *)
(*                                                                         *)
(* React.  State set by useState is the committed state; every handler     *)
(* runs to completion and its batched setState calls commit before the     *)
(* next event is handled.  A function created during a render (start, and  *)
(* the location callback created inside a call of start) reads the values  *)
(* armed, t0 and distanceM of THAT render: the callback's captured values  *)
(* are kept in the subscription record.                                    *)
(***************************************************************************)
EXTENDS Integers, Sequences, FiniteSets, TLC

\* ------------------------------------------------------------------ bounds
\* fixes delivered in one run of the model
MaxFixes == 3
\* subscriptions that exist at once (awaited or created)
MaxSubs == 2

\* ------------------------------------------------------- number encoding
None == <<>>
Some(v) == <<v>>

\* 1/MpsUnit m/s is the unit of coords.speed
MpsUnit == 36
\* coords.speed of the fixes of the hysteresis scenario: raw speeds of
\* 0, 2, 6.5, -4 and 14.5 km/h, which the filter smooths to 0, 0.5, 2.0, 0.5, 4.0
HystRaw == <<0, 20, 65, -40, 145>>
\* the longest run of fixes through one seeding of the filter
EmaSteps == IF MaxFixes > Len(HystRaw) THEN MaxFixes ELSE Len(HystRaw)
\* 1/KmhUnit km/h is the unit of every speed in km/h: raw speeds are
\* multiples of 0.5 km/h and each filter step divides by 4
KmhUnit == 2 * (4 ^ EmaSteps)
\* one latitude unit is an arc of this many metres on a meridian
MetersPerLatUnit == 10

\* ------------------------------------------------------------- utilities
\* const KMH = (mps) => (mps ?? 0) * 3.6
KMH(mps) == ((IF mps = None THEN 0 ELSE mps[1]) * 36 * KmhUnit) \div (10 * MpsUnit)

Min2(a, b) == IF a < b THEN a ELSE b
\* Math.max replaced by its second argument: setMaxKmh(() => speedKmh)
Max2_TakesNew(a, b) == b
Max2(a, b) == IF a > b THEN a ELSE b
\* const clamp = (v, a, b) => Math.max(a, Math.min(b, v))
clamp(v, a, b) == Max2(a, Min2(b, v))

Abs(x) == IF x < 0 THEN -x ELSE x
\* haversineMeters without the absolute value: a signed leg
haversineMeters_Signed(lat1, lon1, lat2, lon2) == MetersPerLatUnit * (lat2 - lat1)
\* haversineMeters for two points of one meridian (lon1 = lon2): there
\* a = sin^2(dLat/2), c = |dLat| and the result is R * |dLat|.
haversineMeters(lat1, lon1, lat2, lon2) == MetersPerLatUnit * Abs(lat2 - lat1)

\* class EmaFilter: alpha in hundredths, new EmaFilter(0.25)
AlphaArg == 25
EmaAlpha == clamp(AlphaArg, 5, 90)
\* next(x): this.y === null ? x : alpha * x + (1 - alpha) * this.y
EmaNext(y, x) == IF y = None THEN x ELSE (EmaAlpha * x + (100 - EmaAlpha) * y[1]) \div 100

\* ------------------------------------------------------------ parameters
SPEED_THRESHOLDS == <<40, 60, 80, 100, 120, 140, 160, 180, 200>>
STOP_KMH == 1
MOVING_KMH == 3
\* a whole number of km/h in speed units
Kmh(k) == k * KmhUnit

\* SPEED_THRESHOLDS.map(v => ({ target: v, t: null }))
EmptySplits == [i \in 1..Len(SPEED_THRESHOLDS) |-> [target |-> SPEED_THRESHOLDS[i], t |-> None]]

\* ---------------------------------------------------------------- inputs
\* coords.speed of a fix: null, 5 km/h and 42 km/h
Speeds == {None, Some(50), Some(420)}
\* timestamps of a fix (ms)
Times == {1000, 2000}
\* latitudes of a fix, all on the meridian of longitude 0
Lats == {0, 1}

VARIABLES
  hasPerm,    \* useState<boolean | null>
  running,    \* useState(false)
  armed,      \* useState(false)
  t0,         \* useState<number | null>
  splits,     \* useState<Split[]>
  maxKmh, avgKmh, currKmh, distanceM, elapsedMs,
  lastPoint,  \* useRef: coords of the previous fix
  emaY,       \* ema.current.y
  subRef,     \* useRef: id of the subscription held, or null
  pending,    \* calls of start awaiting watchPositionAsync
  subs,       \* subscriptions created and not removed
  \* history variables (not program state)
  nFixes,     \* fixes delivered so far
  nSamples,   \* fixes ingested since the filter was last reset
  lastTs,     \* timestamp of the previously ingested fix of the session
  lastMps,    \* coords.speed of the previously ingested fix of the session
  launchTs,   \* timestamp of the first fix of the session, delivered while
              \* armed with no t0, whose smoothed speed was >= MOVING_KMH
  lastOp,     \* the handler that ran last
  lastDirty   \* start/resetAll: measurement data existed before it ran

vars == <<hasPerm, running, armed, t0, splits, maxKmh, avgKmh, currKmh, distanceM,
          elapsedMs, lastPoint, emaY, subRef, pending, subs,
          nFixes, nSamples, lastTs, lastMps, launchTs, lastOp, lastDirty>>

measures == <<splits, maxKmh, avgKmh, currKmh, distanceM, elapsedMs>>
history == <<nSamples, lastTs, lastMps, launchTs>>

Init ==
  /\ hasPerm = None
  /\ running = FALSE
  /\ armed = FALSE
  /\ t0 = None
  /\ splits = EmptySplits
  /\ maxKmh = 0 /\ avgKmh = 0 /\ currKmh = 0 /\ distanceM = 0 /\ elapsedMs = 0
  /\ lastPoint = None
  /\ emaY = None
  /\ subRef = None
  /\ pending = {}
  /\ subs = {}
  /\ nFixes = 0 /\ nSamples = 0 /\ lastTs = None /\ lastMps = None /\ launchTs = None
  /\ lastOp = "init" /\ lastDirty = FALSE

\* measurement data is present (something a reset has to clear)
Dirty ==
  \/ t0 # None \/ splits # EmptySplits \/ maxKmh # 0 \/ avgKmh # 0 \/ currKmh # 0
  \/ distanceM # 0 \/ elapsedMs # 0 \/ lastPoint # None \/ emaY # None

\* useEffect: requestForegroundPermissionsAsync, setHasPerm(status === 'granted')
PermissionResolved ==
  /\ hasPerm = None
  /\ \E granted \in BOOLEAN : hasPerm' = Some(granted)
  /\ lastOp' = "perm" /\ lastDirty' = FALSE
  /\ UNCHANGED <<running, armed, t0, measures, lastPoint, emaY, subRef, pending, subs, history, nFixes>>

\* the buttons are rendered only when hasPerm is true
ButtonsShown == hasPerm = Some(TRUE)

\* subRef.current?.remove()
RemoveHeld == IF subRef = None THEN subs ELSE {s \in subs : s.id # subRef[1]}

\* resetAll without ema.current.reset()
resetAll_KeepsFilter ==
  /\ running' = FALSE /\ armed' = FALSE /\ t0' = None
  /\ splits' = EmptySplits
  /\ maxKmh' = 0 /\ avgKmh' = 0 /\ currKmh' = 0 /\ distanceM' = 0 /\ elapsedMs' = 0
  /\ emaY' = emaY
  /\ lastPoint' = None
  /\ subs' = RemoveHeld /\ subRef' = None
  /\ UNCHANGED <<hasPerm, pending>>

\* const resetAll = useCallback(() => {...}, [])
resetAll ==
  /\ running' = FALSE /\ armed' = FALSE /\ t0' = None
  /\ splits' = EmptySplits
  /\ maxKmh' = 0 /\ avgKmh' = 0 /\ currKmh' = 0 /\ distanceM' = 0 /\ elapsedMs' = 0
  /\ emaY' = None
  /\ lastPoint' = None
  /\ subs' = RemoveHeld /\ subRef' = None
  /\ UNCHANGED <<hasPerm, pending>>

\* ids not used by a subscription that exists
FreeIds == (1..MaxSubs) \ {s.id : s \in pending \cup subs}

\* start without setArmed(true)
start_NotArmed ==
  /\ hasPerm = Some(TRUE)
  /\ FreeIds # {}
  /\ armed' = armed /\ running' = TRUE
  /\ splits' = EmptySplits
  /\ maxKmh' = 0 /\ avgKmh' = 0 /\ currKmh' = 0 /\ distanceM' = 0 /\ elapsedMs' = 0
  /\ emaY' = None /\ lastPoint' = None /\ t0' = None
  /\ LET id == CHOOSE i \in FreeIds : \A j \in FreeIds : i <= j
     IN pending' = pending \cup {[id |-> id, armed |-> armed, t0 |-> t0, distanceM |-> distanceM]}
  /\ UNCHANGED <<hasPerm, subRef, subs>>

\* start whose callback sees the armed = true that start has just set
start_CapturesArmed ==
  /\ hasPerm = Some(TRUE)
  /\ FreeIds # {}
  /\ armed' = TRUE /\ running' = TRUE
  /\ splits' = EmptySplits
  /\ maxKmh' = 0 /\ avgKmh' = 0 /\ currKmh' = 0 /\ distanceM' = 0 /\ elapsedMs' = 0
  /\ emaY' = None /\ lastPoint' = None /\ t0' = None
  /\ LET id == CHOOSE i \in FreeIds : \A j \in FreeIds : i <= j
     IN pending' = pending \cup {[id |-> id, armed |-> TRUE, t0 |-> t0, distanceM |-> distanceM]}
  /\ UNCHANGED <<hasPerm, subRef, subs>>

\* start without ema.current.reset()
start_KeepsFilter ==
  /\ hasPerm = Some(TRUE)
  /\ FreeIds # {}
  /\ armed' = TRUE /\ running' = TRUE
  /\ splits' = EmptySplits
  /\ maxKmh' = 0 /\ avgKmh' = 0 /\ currKmh' = 0 /\ distanceM' = 0 /\ elapsedMs' = 0
  /\ emaY' = emaY /\ lastPoint' = None /\ t0' = None
  /\ LET id == CHOOSE i \in FreeIds : \A j \in FreeIds : i <= j
     IN pending' = pending \cup {[id |-> id, armed |-> armed, t0 |-> t0, distanceM |-> distanceM]}
  /\ UNCHANGED <<hasPerm, subRef, subs>>

\* start, up to the await: the callback it builds captures armed, t0 and
\* distanceM of the render that created this start
start ==
  /\ hasPerm = Some(TRUE)
  /\ FreeIds # {}
  /\ armed' = TRUE /\ running' = TRUE
  /\ splits' = EmptySplits
  /\ maxKmh' = 0 /\ avgKmh' = 0 /\ currKmh' = 0 /\ distanceM' = 0 /\ elapsedMs' = 0
  /\ emaY' = None /\ lastPoint' = None /\ t0' = None
  /\ LET id == CHOOSE i \in FreeIds : \A j \in FreeIds : i <= j
     IN pending' = pending \cup {[id |-> id, armed |-> armed, t0 |-> t0, distanceM |-> distanceM]}
  /\ UNCHANGED <<hasPerm, subRef, subs>>

\* const stop = useCallback(() => {...}, [])
stop ==
  /\ subs' = RemoveHeld
  /\ subRef' = None
  /\ running' = FALSE /\ armed' = FALSE
  /\ UNCHANGED <<hasPerm, t0, measures, lastPoint, emaY, pending>>

\* onPress={running ? stop : start}, Start shown
PressStart ==
  /\ ButtonsShown /\ ~running
  /\ start
  /\ nSamples' = 0 /\ lastTs' = None /\ lastMps' = None /\ launchTs' = None
  /\ UNCHANGED nFixes
  /\ lastOp' = "start" /\ lastDirty' = Dirty

\* onPress={running ? stop : start}, Detener shown
PressStop ==
  /\ ButtonsShown /\ running
  /\ stop
  /\ lastOp' = "stop" /\ lastDirty' = FALSE
  /\ UNCHANGED <<history, nFixes>>

\* onPress={resetAll}
PressReset ==
  /\ ButtonsShown
  /\ resetAll
  /\ nSamples' = 0 /\ lastTs' = None /\ lastMps' = None /\ launchTs' = None
  /\ UNCHANGED nFixes
  /\ lastOp' = "reset" /\ lastDirty' = Dirty

\* start after the await: the subscription exists, subRef.current = sub
WatchResolved ==
  /\ \E p \in pending :
       /\ pending' = pending \ {p}
       /\ subs' = subs \cup {p}
       /\ subRef' = Some(p.id)
  /\ lastOp' = "watch" /\ lastDirty' = FALSE
  /\ UNCHANGED <<hasPerm, running, armed, t0, measures, lastPoint, emaY, history, nFixes>>

\* setSplits without `if (t0 === null) return prev` (now - null is now)
SplitsUpdate_NoGuard(prev, ct0, now, speedKmh) ==
  [i \in DOMAIN prev |->
     IF prev[i].t # None THEN prev[i]
     ELSE IF speedKmh >= Kmh(prev[i].target)
            THEN [prev[i] EXCEPT !.t = Some(now - (IF ct0 = None THEN 0 ELSE ct0[1]))]
     ELSE prev[i]]

\* setSplits((prev) => ...) with the callback's t0
SplitsUpdate(prev, ct0, now, speedKmh) ==
  IF ct0 = None THEN prev
  ELSE [i \in DOMAIN prev |->
          IF prev[i].t # None THEN prev[i]
          ELSE IF speedKmh >= Kmh(prev[i].target) THEN [prev[i] EXCEPT !.t = Some(now - ct0[1])]
          ELSE prev[i]]

\* setAvgKmh((curr) => ...) with the callback's t0 and distanceM:
\* km / (secs / 3600) = distanceM * 3600 / (now - t0) km/h
AvgUpdate(curr, ct0, cdist, now) ==
  IF ct0 = None THEN curr
  ELSE IF now - ct0[1] <= 0 THEN 0
  ELSE (cdist * 3600 * KmhUnit) \div (now - ct0[1])

\* the callback of subscription c on a fix (speed mps, timestamp, latitude)
callback(c, mps, timestamp, lat) ==
  LET speedKmhRaw == KMH(mps)
      speedKmh == EmaNext(emaY, speedKmhRaw)
      now == timestamp
  IN /\ emaY' = Some(speedKmh)
     /\ currKmh' = speedKmh
     /\ maxKmh' = Max2(maxKmh, speedKmh)
     /\ distanceM' = IF lastPoint # None
                       THEN distanceM + haversineMeters(lastPoint[1].latitude, lastPoint[1].longitude, lat, 0)
                       ELSE distanceM
     /\ lastPoint' = Some([latitude |-> lat, longitude |-> 0])
     /\ t0' = IF c.armed /\ c.t0 = None /\ ~(speedKmh <= Kmh(STOP_KMH)) /\ speedKmh >= Kmh(MOVING_KMH)
                THEN Some(now) ELSE t0
     /\ splits' = SplitsUpdate(splits, c.t0, now, speedKmh)
     /\ elapsedMs' = IF c.t0 # None THEN now - c.t0[1] ELSE elapsedMs
     /\ avgKmh' = AvgUpdate(avgKmh, c.t0, c.distanceM, now)
     /\ UNCHANGED <<hasPerm, running, armed, subRef, pending, subs>>

\* a fix is delivered to the callback of a subscription that exists
Deliver(c, mps, timestamp, lat) ==
  /\ c \in subs
  /\ callback(c, mps, timestamp, lat)
  /\ nSamples' = nSamples + 1
  /\ lastTs' = Some(timestamp)
  /\ lastMps' = mps
  /\ launchTs' = IF launchTs = None /\ armed /\ t0 = None /\ currKmh' >= Kmh(MOVING_KMH)
                   THEN Some(timestamp) ELSE launchTs
  /\ lastOp' = "sample" /\ lastDirty' = FALSE

Sample ==
  /\ nFixes < MaxFixes
  /\ \E c \in subs, mps \in Speeds, timestamp \in Times, lat \in Lats : Deliver(c, mps, timestamp, lat)
  /\ nFixes' = nFixes + 1

Next ==
  \/ PermissionResolved
  \/ PressStart
  \/ PressStop
  \/ PressReset
  \/ WatchResolved
  \/ Sample

Spec == Init /\ [][Next]_vars

\* ------------------------------------------------- hysteresis scenario
\* the fixes of one session carry the speeds of HystRaw, in order
HystSample ==
  /\ nSamples < Len(HystRaw)
  /\ \E c \in subs, timestamp \in Times, lat \in Lats :
       Deliver(c, Some(HystRaw[nSamples + 1]), timestamp, lat)
  /\ UNCHANGED nFixes

NextHyst ==
  \/ PermissionResolved
  \/ PressStart
  \/ PressStop
  \/ PressReset
  \/ WatchResolved
  \/ HystSample

SpecHyst == Init /\ [][NextHyst]_vars

\* ------------------------------------------------- end-to-end scenario
\* three fixes at 0, 1000 and 2000 ms, 10 m apart; their speeds are
\* 0, 5 and 42 km/h either as raw speeds (E2ERaw) or as the smoothed speeds
\* the filter gives for raw 0, 20 and 153 km/h (E2ESmooth)
E2ERaw == <<0, 50, 420>>
E2ESmooth == <<0, 200, 1530>>
E2ETimes == <<0, 1000, 2000>>
E2ELats == <<0, 1, 2>>

E2ESample ==
  /\ nSamples < Len(E2ETimes)
  /\ \E c \in subs, v \in {E2ERaw, E2ESmooth} :
       /\ nSamples >= 2 => lastMps = Some(v[nSamples])
       /\ Deliver(c, Some(v[nSamples + 1]), E2ETimes[nSamples + 1], E2ELats[nSamples + 1])
  /\ UNCHANGED nFixes

NextE2E ==
  \/ PermissionResolved
  \/ PressStart
  \/ PressStop
  \/ PressReset
  \/ WatchResolved
  \/ E2ESample

SpecE2E == Init /\ [][NextE2E]_vars

\* ================================================================ claims
\* a step that ingested a fix
SampleStep == nSamples' = nSamples + 1
AllUnset == \A i \in DOMAIN splits : splits[i].t = None
\* smoothed speeds of the hysteresis scenario: 0, 0.5, 2.0, 0.5, 4.0 km/h
HystSmoothed == <<0, KmhUnit \div 2, 2 * KmhUnit, KmhUnit \div 2, 4 * KmhUnit>>

\* Supporting fact: start is reachable only from a render in which running
\* (and so armed) is false, so every callback captured armed = FALSE and
\* t0 = null; no fix ever sets t0 or a split.
ClosuresNeverArmed ==
  /\ \A c \in pending \cup subs : ~c.armed /\ c.t0 = None
  /\ t0 = None /\ AllUnset /\ elapsedMs = 0 /\ avgKmh = 0
  /\ armed = running

\* C1: while armed with no time origin, a fix whose smoothed speed is
\* >= MOVING_KMH sets t0 to that fix's timestamp.
C1_LaunchSetsT0 ==
  [][(SampleStep /\ armed /\ t0 = None /\ currKmh' >= Kmh(MOVING_KMH)) => t0' = lastTs']_vars

\* C2: in an armed session fed the smoothed speeds 0, 0.5, 2.0, 0.5, 4.0,
\* t0 is unset after each of the first four fixes and is the fifth fix's
\* timestamp after the fifth.
C2_HysteresisScenario ==
  (lastOp = "sample" /\ armed) =>
     /\ currKmh = HystSmoothed[nSamples]
     /\ (nSamples < Len(HystRaw) => t0 = None)
     /\ (nSamples = Len(HystRaw) => t0 = lastTs)

\* C5: once the session has launched at launchTs, a fix with timestamp now
\* and smoothed speed v sets every unset split with target <= v to
\* now - launchTs and leaves the unset splits with target > v unset.
C5_SplitsSetOnThreshold ==
  [][(SampleStep /\ armed /\ launchTs # None) =>
       \A i \in DOMAIN splits :
          splits[i].t = None =>
             splits'[i].t = IF currKmh' >= Kmh(splits[i].target)
                              THEN Some(lastTs'[1] - launchTs[1]) ELSE None]_vars

\* C6: a fix whose timestamp is not after the previous fix's timestamp of
\* the session changes no output, nor the last coordinate, nor the filter.
C6_OutOfOrderIgnored ==
  [][(SampleStep /\ lastTs # None /\ lastTs'[1] <= lastTs[1]) =>
       UNCHANGED <<measures, t0, lastPoint, emaY>>]_vars

\* C7: right after resetAll the session is idle and every measurement, the
\* last coordinate and the filter are cleared.
C7_ResetClears ==
  lastOp = "reset" =>
     /\ ~running /\ ~armed /\ t0 = None
     /\ AllUnset /\ splits = EmptySplits
     /\ maxKmh = 0 /\ distanceM = 0 /\ avgKmh = 0 /\ elapsedMs = 0 /\ currKmh = 0
     /\ lastPoint = None /\ emaY = None
\* resetAll ran on a session that had ingested fixes
C7_Witness == lastOp = "reset" /\ lastDirty /\ nFixes > 0

\* C8: after the session launched at launchTs, every later fix of the
\* session leaves t0 equal to launchTs.
C8_T0Stable ==
  [][(SampleStep /\ armed /\ launchTs # None) => t0' = launchTs]_vars

\* C9: right after start the session is armed with no time origin and
\* cleared measurements, and no callback of a subscription holds a time
\* origin taken from before its session.
C9_StartArms ==
  /\ lastOp = "start" =>
        /\ armed /\ running /\ t0 = None
        /\ AllUnset /\ elapsedMs = 0 /\ avgKmh = 0
  /\ \A c \in pending \cup subs : c.t0 = None
\* start ran after an earlier session that had left measurement data
C9_Witness == lastOp = "start" /\ lastDirty /\ nFixes > 0

\* C10: after every fix ingested once the session has launched at
\* launchTs, elapsedMs is that fix's timestamp minus launchTs.
C10_ElapsedFromT0 ==
  [][(SampleStep /\ armed /\ launchTs' # None) => elapsedMs' = lastTs'[1] - launchTs'[1]]_vars

\* C11: after every fix ingested once the session has launched at launchTs,
\* avgKmh is the current distanceM (km) divided by the hours since
\* launchTs, and 0 when the fix's timestamp equals launchTs.
C11_AvgFromCurrent ==
  [][(SampleStep /\ armed /\ launchTs' # None) =>
       /\ lastTs'[1] > launchTs'[1] =>
            avgKmh' * (lastTs'[1] - launchTs'[1]) = distanceM' * 3600 * KmhUnit
       /\ lastTs' = launchTs' => avgKmh' = 0]_vars

\* a step inside a session: neither start nor resetAll
InSession == lastOp' \notin {"start", "reset"}

\* C12: inside a session distanceM never decreases; the first fix adds
\* nothing and every later fix adds the leg from the previous coordinate.
C12_DistanceMonotone ==
  [][/\ InSession => distanceM' >= distanceM
     /\ SampleStep =>
          distanceM' = distanceM +
             (IF lastPoint = None THEN 0
              ELSE MetersPerLatUnit * Abs(lastPoint'[1].latitude - lastPoint[1].latitude))]_vars
\* two fixes at different coordinates have been ingested
C12_Witness == lastOp = "sample" /\ nSamples >= 2 /\ distanceM > 0

\* C13: maxKmh is the running maximum of the smoothed speed: each fix
\* makes it the larger of its old value and the new currKmh, it is never
\* below currKmh and it never decreases inside a session.
C13_RunningMax ==
  [][/\ maxKmh' >= currKmh'
     /\ SampleStep => maxKmh' = (IF currKmh' > maxKmh THEN currKmh' ELSE maxKmh)
     /\ InSession => maxKmh' >= maxKmh]_vars
\* the smoothed speed has dropped below the maximum it reached
C13_Witness == lastOp = "sample" /\ currKmh > 0 /\ currKmh < maxKmh

\* C16: no split is set in a state where t0 is unset, and a fix ingested
\* while t0 is unset leaves the split table unchanged, whatever its speed.
C16_NoSplitWithoutT0 ==
  [][/\ t0' = None => AllUnset'
     /\ (SampleStep /\ t0 = None) => splits' = splits]_vars
\* a fix above the lowest threshold was ingested with no time origin
C16_Witness == lastOp = "sample" /\ t0 = None /\ currKmh >= Kmh(SPEED_THRESHOLDS[1])

\* C17: the first fix ingested after start or resetAll gives a current
\* speed equal to its raw speed in km/h (a missing speed counts as 0);
\* every later fix gives 0.25 * raw + 0.75 * previous current speed.
C17_FilterReseeded ==
  [][SampleStep =>
       IF nSamples = 0
         THEN currKmh' = KMH(lastMps')
         ELSE 100 * currKmh' = 25 * KMH(lastMps') + 75 * currKmh]_vars
\* the first fix of a session that follows a session with fixes
C17_Witness == lastOp = "sample" /\ nSamples = 1 /\ nFixes > 1 /\ running

\* C15: after start and the three fixes of the end-to-end scenario, t0 is
\* 1000, the 40 km/h split is 1000 ms, distanceM is 20, elapsedMs is 1000
\* and maxKmh is 42.
C15_EndToEnd ==
  (lastOp = "sample" /\ armed /\ nSamples = Len(E2ETimes)) =>
     /\ t0 = Some(1000)
     /\ splits[1].t = Some(1000)
     /\ distanceM = 20
     /\ elapsedMs = 1000
     /\ maxKmh = Kmh(42)
\* Supporting fact: the part of the scenario the code does deliver, when
\* 0, 5 and 42 km/h are the smoothed speeds.
E2E_DistanceAndMax ==
  (lastOp = "sample" /\ armed /\ nSamples = Len(E2ETimes) /\ lastMps = Some(E2ESmooth[3])) =>
     distanceM = 20 /\ maxKmh = Kmh(42) /\ currKmh = Kmh(42)
\* Supporting fact: with 0, 5 and 42 km/h as raw speeds the filter gives
\* 11.4375 km/h after the third fix, and that is also the maximum.
E2E_RawReading ==
  (lastOp = "sample" /\ armed /\ nSamples = Len(E2ETimes) /\ lastMps = Some(E2ERaw[3])) =>
     distanceM = 20 /\ 16 * maxKmh = 183 * KmhUnit /\ currKmh = maxKmh

\* C18: while the session is stopped (after stop or resetAll, until the
\* next start) no location subscription is active, so no fix is ingested.
C18_StoppedMeansNoSubscription == ~running => subs = {}

\* C19: at most one location subscription is active, and an active
\* subscription is the one subRef holds.
C19_OneHeldSubscription ==
  /\ Cardinality(subs) <= 1
  /\ \A c \in subs : subRef = Some(c.id)

\* C20: elapsedMs and every set split time are non-negative, whatever the
\* order of the timestamps of the fixes.
C20_NonNegativeTimes ==
  /\ elapsedMs >= 0
  /\ \A i \in DOMAIN splits : splits[i].t # None => splits[i].t[1] >= 0
\* a fix was ingested whose timestamp is before that of the launching fix
C20_Witness ==
  lastOp = "sample" /\ armed /\ launchTs # None /\ lastTs[1] < launchTs[1]

====
